---- MODULE Spec2Model ----
(***************************************************************************)
(* The statement compiler of query/compile.go.  The file holds two drafts  *)
(* of the compiler: the bottom-up one (lines 1-363, every compile method   *)
(* on compiledStatement returns the ReadEdge of what it built) and the     *)
(* top-down one (lines 365-822, compiledField methods fill a WriteEdge     *)
(* handed down by the parent).  Both are modelled; `draft` says which one  *)
(* a behaviour runs.                                                       *)
(***************************************************************************)
EXTENDS Integers, Sequences, FiniteSets, TLC

VARIABLES
    draft,      \* 1: lines 1-363, 2: lines 365-822
    stmt,       \* the *influxql.SelectStatement given to Compile
    opt,        \* the CompileOptions given to Compile
    pc,         \* position of Compile / Select
    idx,        \* loop index of the running loop
    c,          \* the compiledStatement under construction
    nodes,      \* the heap of Node values, addressed by position
    edges,      \* the heap of WriteEdge/ReadEdge pairs, addressed by position
    ret,        \* what Compile returned: [c |-> non-nil statement?, err |-> error]
    fieldOut,   \* history: <<field index, edge Compile took as that field's output>>
    targets,    \* the edges Plan.AddTarget received, in call order
    selected,   \* what Select returned
    calls       \* history: the arguments of the compileVarRef calls made directly

vars == <<draft, stmt, opt, pc, idx, c, nodes, edges, ret, fieldOut, targets, selected, calls>>

----------------------------------------------------------------------------
(* Bounds of the model. *)

MaxFields == 2
MaxDims == 2
MaxSources == 2
MaxCalls == 2

----------------------------------------------------------------------------
(* The influxql AST (package influxql, imported by compile.go). *)

VarRef(v) == [type |-> "VarRef", val |-> v]
Call(name, args) == [type |-> "Call", name |-> name, args |-> args]
DistinctExpr(v) == [type |-> "Distinct", val |-> v]
BinaryExprAst(l, r) == [type |-> "BinaryExpr", op |-> "+", lhs |-> l, rhs |-> r]
IntegerLiteral(n) == [type |-> "IntegerLiteral", val |-> n]
DurationLiteral(n) == [type |-> "DurationLiteral", val |-> n]
TimeLiteral(t) == [type |-> "TimeLiteral", val |-> t]
StringLiteral(s) == [type |-> "StringLiteral", val |-> s]
RegexLiteral(s) == [type |-> "RegexLiteral", val |-> s]
WildcardExpr == [type |-> "Wildcard"]

Measurement(n) == [kind |-> "Measurement", name |-> n]
SubQuery(n) == [kind |-> "SubQuery", name |-> n]

\* influxql.Literal: the AST nodes with a literal() method.
IsLiteral(e) ==
    e.type \in {"IntegerLiteral", "DurationLiteral", "TimeLiteral", "StringLiteral", "RegexLiteral"}

\* (*influxql.Distinct).NewCall: distinct(<Val>) as a call.
NewCall(d) == Call("distinct", <<VarRef(d.val)>>)

\* Expr.String(), for the AST nodes that reach a "found %s" message.
ExprString(e) ==
    CASE e.type = "IntegerLiteral" -> ToString(e.val)
      [] e.type = "DurationLiteral" -> ToString(e.val) \o "ns"
      [] e.type \in {"VarRef", "StringLiteral", "RegexLiteral"} -> e.val
      [] e.type = "Call" -> e.name \o "()"
      [] OTHER -> e.type

\* strings.ToLower on the names the model uses.
ToLower(s) ==
    CASE s = "TIME" -> "time"
      [] s = "Time" -> "time"
      [] OTHER -> s

\* Go's % on integers: the result has the sign of the dividend.  b # 0.
GoRem(a, b) ==
    LET m == IF b < 0 THEN -b ELSE b
    IN  IF a >= 0 THEN a % m ELSE -((-a) % m)

\* time.Time.Truncate(d), times counted in ns since the zero Time:
\* d <= 0 returns t unchanged.
Truncate(t, d) == IF d <= 0 THEN t ELSE t - (t % d)

----------------------------------------------------------------------------
(* Errors and panics. *)

NoErr == ""
PanicUnimplemented == "panic: unimplemented"
PanicDivide == "panic: runtime error: integer divide by zero"
PanicNil == "panic: runtime error: invalid memory address or nil pointer dereference"
Panics == {PanicUnimplemented, PanicDivide, PanicNil}
IsPanic(e) == e \in Panics

ErrUnimplemented == "unimplemented"
ErrMixAggregate == "mixing aggregate and non-aggregate queries is not supported"
ErrMixSelectors == "mixing multiple selector functions with tags or fields is not supported"
ErrNoField == "at least 1 non-time field must be queried"
ErrMultipleTime == "multiple time dimensions not allowed"
ErrCombined(name) == "selector function " \o name \o "() cannot be combined with other functions"

----------------------------------------------------------------------------
(* The graph heap.  A node is a record of every field any Node type has;   *)
(* an edge is a WriteEdge/ReadEdge pair: w is WriteEdge.Node (the producer)*)
(* and r is ReadEdge.Node (the consumer); 0 is nil.                        *)

Nil == 0
NilRef == "<nil>"

NewNode(kind) ==
    [kind |-> kind, name |-> "", input |-> <<>>, output |-> Nil,
     aux |-> <<>>, outputs |-> <<>>, expr |-> NilRef, measurement |-> "",
     dimensions |-> <<>>]

\* The threaded compile state: the statement and the two heaps.
State(cs, ns, es) == [c |-> cs, nodes |-> ns, edges |-> es]

\* Allocation of a node; the new node's address is Len(st.nodes) + 1.
Alloc(st, n) == [st EXCEPT !.nodes = Append(st.nodes, n)]
Last(st) == Len(st.nodes)

\* NewEdge(in): a WriteEdge bound to `in` and its ReadEdge, unbound.
NewEdge(st, in) ==
    [st |-> [st EXCEPT !.edges = Append(st.edges, [w |-> in, r |-> Nil])],
     e |-> Len(st.edges) + 1]

\* AddEdge(in, out): an edge from node `in` to node `out`.
AddEdge(st, in, out) ==
    [st |-> [st EXCEPT !.edges = Append(st.edges, [w |-> in, r |-> out])],
     e |-> Len(st.edges) + 1]

\* (*Merge).AddInput(n): an edge from n into the merge, appended to its inputs.
MergeAddInput(st, merge, n) ==
    LET a == AddEdge(st, n, merge)
    IN  [st |-> [a.st EXCEPT !.nodes[merge].input = Append(@, a.e)], e |-> a.e]

\* (*AuxiliaryFields).Iterator(ref): records the reference and returns the
\* read end of a new edge out of the auxiliary-fields node.
AuxIterator(st, aux, ref) ==
    LET a == NewEdge(st, aux)
    IN  [st |-> [a.st EXCEPT !.nodes[aux].aux = Append(@, ref),
                             !.nodes[aux].outputs = Append(@, a.e)],
         e |-> a.e]

\* (*ReadEdge).Insert(n): splices n into the edge.  The producer's WriteEdge
\* now feeds n through a new ReadEdge (returned first), and n feeds the old
\* ReadEdge, which keeps its consumer, through a new WriteEdge (returned
\* second).  An edge of the heap is named after its ReadEdge, so the
\* producer's output moves to the new edge.
Insert(st, e, n) ==
    LET in == Len(st.edges) + 1
        p == st.edges[e].w
    IN  [st |-> [st EXCEPT !.edges = Append([@ EXCEPT ![e].w = n], [w |-> p, r |-> n]),
                           !.nodes = IF p = Nil THEN @ ELSE [@ EXCEPT ![p].output = in]],
         in |-> in, out |-> e]

----------------------------------------------------------------------------
(* Results of the compile methods: the state they leave, the edge they     *)
(* return and the error.  A panic unwinds through every caller, so it is   *)
(* carried in err like an error and is never caught.                       *)

Ok(st, e) == [st |-> st, out |-> e, err |-> NoErr]
Fail(st, msg) == [st |-> st, out |-> Nil, err |-> msg]

ErrArgs(name, exp, got) ==
    "invalid number of arguments for " \o name \o ", expected " \o ToString(exp)
        \o ", got " \o ToString(got)
ErrArgsAtLeast(name, exp, got) ==
    "invalid number of arguments for " \o name \o ", expected at least " \o ToString(exp)
        \o ", got " \o ToString(got)
ErrFieldArg(name) == "expected field argument in " \o name \o "()"

\* newCompiler and the copy of the sources (lines 55-64, 285-289).
newCompiler(s, o, clock) ==
    [Sources |-> s.Sources,
     Dimensions |-> <<>>,
     Interval |-> [Duration |-> 0, Offset |-> 0],
     FunctionCalls |-> <<>>,
     OnlySelectors |-> TRUE,
     TopBottomFunction |-> "",
     AuxiliaryFields |-> Nil,
     OutputEdges |-> <<>>,
     Fields |-> <<>>,
     Options |-> [Now |-> IF o.Now = 0 THEN clock ELSE o.Now]]

----------------------------------------------------------------------------
(* Draft 1 (lines 66-363): bottom-up compilation. *)

\* One round of the loop of compileVarRef, lines 257-267, for a measurement.
compileVarRefInput(st, merge, ref, source) ==
    LET ic == Last(st) + 1
        Bind(a) == [a.st EXCEPT !.nodes[ic].output = a.e]
    IN  Bind(MergeAddInput(Alloc(st, [NewNode("IteratorCreator") EXCEPT
                                          !.expr = ref,
                                          !.measurement = source.name]),
                           merge, ic))

\* The loop of compileVarRef over c.Sources, from source i on.
RECURSIVE compileVarRefSources(_, _, _, _)
compileVarRefSources(st, merge, ref, i) ==
    IF i > Len(st.c.Sources) THEN Ok(st, Nil)
    ELSE IF st.c.Sources[i].kind = "Measurement"
    THEN compileVarRefSources(compileVarRefInput(st, merge, ref, st.c.Sources[i]),
                              merge, ref, i + 1)
    ELSE Fail(st, PanicUnimplemented)

\* Fault: the loop over the sources misses the first one.
compileVarRef_SkipFirst(st, ref, node) ==
    LET merge == Last(st) + 1
        Out(a) == Ok([a.st EXCEPT !.nodes[merge].output = a.e], a.e)
        Then(r) == IF r.err # NoErr THEN r ELSE Out(AddEdge(r.st, merge, node))
    IN  Then(compileVarRefSources(Alloc(st, NewNode("Merge")), merge, ref, 2))

\* compiledStatement.compileVarRef(ref, node), lines 254-273.
compileVarRef(st, ref, node) ==
    LET merge == Last(st) + 1
        Out(a) == Ok([a.st EXCEPT !.nodes[merge].output = a.e], a.e)
        Then(r) == IF r.err # NoErr THEN r ELSE Out(AddEdge(r.st, merge, node))
    IN  Then(compileVarRefSources(Alloc(st, NewNode("Merge")), merge, ref, 1))

\* compiledStatement.compileDistinct(call), lines 190-209.
compileDistinct(st, call) ==
    IF Len(call.args) = 0
    THEN Fail(st, "distinct function requires at least one argument")
    ELSE IF Len(call.args) # 1
    THEN Fail(st, "distinct function can only have one argument")
    ELSE IF call.args[1].type # "VarRef"
    THEN Fail(st, "expected field argument in distinct()")
    ELSE LET d == Last(st) + 1
             Out(o) == Ok([o.st EXCEPT !.nodes[d].output = o.e,
                                       !.c.FunctionCalls = Append(@, o.e)], o.e)
             Then(v) == IF v.err # NoErr THEN v
                        ELSE Out(NewEdge([v.st EXCEPT !.nodes[d].input = <<v.out>>], d))
         IN  Then(compileVarRef(Alloc(st, NewNode("Distinct")), call.args[1].val, d))

\* The names compileFunction leaves OnlySelectors alone for (line 154).
SelectorNames == {"max", "min", "first", "last", "percentile", "sample"}

\* Fault: the switch takes every function for a selector.
markFunction_AllSelectors(cs, name) ==
    IF name \in {"top", "bottom"}
    THEN IF cs.TopBottomFunction = "" THEN [cs EXCEPT !.TopBottomFunction = name] ELSE cs
    ELSE cs

\* The switch of compileFunction on the function's name, lines 149-157.
markFunction(cs, name) ==
    IF name \in {"top", "bottom"}
    THEN IF cs.TopBottomFunction = "" THEN [cs EXCEPT !.TopBottomFunction = name] ELSE cs
    ELSE IF name \in SelectorNames THEN cs
    ELSE [cs EXCEPT !.OnlySelectors = FALSE]

\* The source of the function, lines 116-142: a nested distinct for count,
\* else a variable reference.
compileFunctionInput(st, expr) ==
    LET arg0 == expr.args[1] IN
    IF expr.name = "count" /\ arg0.type = "Call" /\ arg0.name = "distinct"
    THEN compileDistinct(st, arg0)
    ELSE IF expr.name = "count" /\ arg0.type = "Distinct"
    THEN compileDistinct(st, NewCall(arg0))
    ELSE IF arg0.type # "VarRef" THEN Fail(st, ErrFieldArg(expr.name))
    ELSE compileVarRef(st, arg0.val, Nil)

\* Fault: the call node takes its input edge but the edge is not told of
\* its consumer.
compileFunctionCall_Unbound(st, expr, input) ==
    LET call == Last(st) + 1
        Out(o) == Ok([o.st EXCEPT !.nodes[call].output = o.e,
                                  !.c.FunctionCalls = Append(@, o.e)], o.e)
    IN  Out(NewEdge([Alloc(st, [NewNode("FunctionCall") EXCEPT
                                    !.name = expr.name,
                                    !.input = <<input>>])
                        EXCEPT !.c = markFunction(@, expr.name)],
                    call))

\* The call node over its compiled input, lines 144-162.
compileFunctionCall(st, expr, input) ==
    LET call == Last(st) + 1
        Out(o) == Ok([o.st EXCEPT !.nodes[call].output = o.e,
                                  !.c.FunctionCalls = Append(@, o.e)], o.e)
    IN  Out(NewEdge([Alloc(st, [NewNode("FunctionCall") EXCEPT
                                    !.name = expr.name,
                                    !.input = <<input>>])
                        EXCEPT !.edges[input].r = call,
                               !.c = markFunction(@, expr.name)],
                    call))

\* compiledStatement.compileFunction(expr), lines 111-163.
compileFunction(st, expr) ==
    LET Then(in) == IF in.err # NoErr THEN in
                    ELSE compileFunctionCall(in.st, expr, in.out)
    IN  IF Len(expr.args) # 1 THEN Fail(st, ErrArgs(expr.name, 1, Len(expr.args)))
        ELSE Then(compileFunctionInput(st, expr))

\* The interior arguments of top/bottom that are no variable reference.
BadDimensionArgs(call) ==
    {i \in 2..(Len(call.args) - 1) : call.args[i].type # "VarRef"}

Min(S) == CHOOSE x \in S : \A y \in S : x <= y

\* The argument checks of compileTopBottom, lines 216-242 (repeated at
\* 634-660): the error, or NoErr.
checkTopBottom(call) ==
    LET n == Len(call.args) IN
    IF n < 2 THEN ErrArgsAtLeast(call.name, 2, n)
    ELSE IF call.args[1].type # "VarRef" THEN ErrFieldArg(call.name)
    ELSE IF n > 2 /\ BadDimensionArgs(call) # {}
    THEN "only fields or tags are allowed in " \o call.name \o "(), found "
             \o ExprString(call.args[Min(BadDimensionArgs(call))])
    ELSE IF call.args[n].type # "IntegerLiteral"
    THEN "expected integer as last argument in " \o call.name \o "(), found "
             \o ExprString(call.args[n])
    ELSE IF call.args[n].val <= 0
    THEN "limit (" \o ToString(call.args[n].val) \o ") in " \o call.name
             \o " function must be at least 1"
    ELSE NoErr

\* The dimensions of a top/bottom call whose arguments passed the checks.
topBottomDimensions(call) ==
    [i \in 1..(Len(call.args) - 2) |-> call.args[i + 1].val]

\* compiledStatement.compileTopBottom(call), lines 211-252.
compileTopBottom(st, call) ==
    LET sel == Last(st) + 1
        Out(o) == Ok([o.st EXCEPT !.nodes[sel].output = o.e,
                                  !.c.FunctionCalls = Append(@, o.e)], o.e)
        Then(v) == IF v.err # NoErr THEN v
                   ELSE Out(NewEdge([v.st EXCEPT !.nodes[sel].input = <<v.out>>], sel))
    IN  IF st.c.TopBottomFunction # ""
        THEN Fail(st, ErrCombined(st.c.TopBottomFunction))
        ELSE IF checkTopBottom(call) # NoErr THEN Fail(st, checkTopBottom(call))
        ELSE Then(compileVarRef(
                      Alloc([st EXCEPT !.c.TopBottomFunction = call.name],
                            [NewNode("TopBottomSelector") EXCEPT
                                 !.dimensions = topBottomDimensions(call)]),
                      call.args[1].val, sel))

\* The VarRef case of compileExpr, lines 68-73.
compileExprVarRef(st, expr) ==
    LET Out(a) == Ok(a.st, a.e)
        Then(s1) == Out(AuxIterator(s1, s1.c.AuxiliaryFields, expr.val))
    IN  Then(IF st.c.AuxiliaryFields = Nil
             THEN [Alloc(st, NewNode("AuxiliaryFields")) EXCEPT
                       !.c.AuxiliaryFields = Last(st) + 1]
             ELSE st)

\* The node of a binary expression over its two compiled sides, lines 100-105.
compileExprBinary(st, expr, lhs, rhs) ==
    LET node == Last(st) + 1
        Out(o) == Ok([o.st EXCEPT !.nodes[node].output = o.e], o.e)
    IN  Out(NewEdge([Alloc(st, [NewNode("BinaryExpr") EXCEPT !.name = expr.op,
                                                              !.input = <<lhs, rhs>>])
                        EXCEPT !.edges[lhs].r = node, !.edges[rhs].r = node],
                    node))

\* compiledStatement.compileExpr(expr), lines 66-109.
RECURSIVE compileExpr(_, _)
compileExpr(st, expr) ==
    LET Both(lhs, rhs) == IF rhs.err # NoErr THEN rhs
                          ELSE compileExprBinary(rhs.st, expr, lhs.out, rhs.out)
        Left(lhs) == IF lhs.err # NoErr THEN lhs
                     ELSE Both(lhs, compileExpr(lhs.st, expr.rhs))
    IN  CASE expr.type = "VarRef" -> compileExprVarRef(st, expr)
          [] expr.type = "Call" ->
                IF expr.name \in {"count", "min", "max", "sum", "first", "last", "mean"}
                THEN compileFunction(st, expr)
                ELSE IF expr.name = "distinct" THEN compileDistinct(st, expr)
                ELSE IF expr.name \in {"top", "bottom"} THEN compileTopBottom(st, expr)
                ELSE Fail(st, ErrUnimplemented)
          [] expr.type = "Distinct" -> compileDistinct(st, NewCall(expr))
          [] expr.type = "BinaryExpr" ->
                IF IsLiteral(expr.lhs) THEN Fail(st, ErrUnimplemented)
                ELSE IF IsLiteral(expr.rhs) THEN Fail(st, ErrUnimplemented)
                ELSE Left(compileExpr(st, expr.lhs))
          [] OTHER -> Fail(st, ErrUnimplemented)

\* Fault: validateFields lets one call pass beside top/bottom.
validateFields_Two(cs) ==
    IF Len(cs.FunctionCalls) > 2 /\ cs.TopBottomFunction # ""
    THEN ErrCombined(cs.TopBottomFunction)
    ELSE NoErr

\* compiledStatement.validateFields, lines 275-281.
validateFields(cs) ==
    IF Len(cs.FunctionCalls) > 1 /\ cs.TopBottomFunction # ""
    THEN ErrCombined(cs.TopBottomFunction)
    ELSE NoErr

\* Fault: linkAuxiliaryFields does not count the calls beside auxiliary fields.
linkAuxiliaryFields_NoCount(st) ==
    LET aux == st.c.AuxiliaryFields
        Spliced(i) == Ok([i.st EXCEPT !.nodes[aux].input = <<i.in>>,
                                      !.nodes[aux].output = i.out], Nil)
        Default(v) == IF v.err # NoErr THEN v
                      ELSE Ok([v.st EXCEPT !.nodes[aux].input = <<v.out>>], Nil)
    IN  IF aux = Nil
        THEN IF Len(st.c.FunctionCalls) = 0 THEN Fail(st, ErrNoField) ELSE Ok(st, Nil)
        ELSE IF ~st.c.OnlySelectors THEN Fail(st, ErrMixAggregate)
        ELSE IF Len(st.c.FunctionCalls) = 1
        THEN Spliced(Insert(st, st.c.FunctionCalls[1], aux))
        ELSE Default(compileVarRef(st, NilRef, aux))

\* Fault: linkAuxiliaryFields accepts a statement that queries nothing.
linkAuxiliaryFields_Empty(st) ==
    LET aux == st.c.AuxiliaryFields
        Spliced(i) == Ok([i.st EXCEPT !.nodes[aux].input = <<i.in>>,
                                      !.nodes[aux].output = i.out], Nil)
        Default(v) == IF v.err # NoErr THEN v
                      ELSE Ok([v.st EXCEPT !.nodes[aux].input = <<v.out>>], Nil)
    IN  IF aux = Nil THEN Ok(st, Nil)
        ELSE IF ~st.c.OnlySelectors THEN Fail(st, ErrMixAggregate)
        ELSE IF Len(st.c.FunctionCalls) > 1 THEN Fail(st, ErrMixSelectors)
        ELSE IF Len(st.c.FunctionCalls) = 1
        THEN Spliced(Insert(st, st.c.FunctionCalls[1], aux))
        ELSE Default(compileVarRef(st, NilRef, aux))

\* compiledStatement.linkAuxiliaryFields, lines 165-188.
linkAuxiliaryFields(st) ==
    LET aux == st.c.AuxiliaryFields
        Spliced(i) == Ok([i.st EXCEPT !.nodes[aux].input = <<i.in>>,
                                      !.nodes[aux].output = i.out], Nil)
        Default(v) == IF v.err # NoErr THEN v
                      ELSE Ok([v.st EXCEPT !.nodes[aux].input = <<v.out>>], Nil)
    IN  IF aux = Nil
        THEN IF Len(st.c.FunctionCalls) = 0 THEN Fail(st, ErrNoField) ELSE Ok(st, Nil)
        ELSE IF ~st.c.OnlySelectors THEN Fail(st, ErrMixAggregate)
        ELSE IF Len(st.c.FunctionCalls) > 1 THEN Fail(st, ErrMixSelectors)
        ELSE IF Len(st.c.FunctionCalls) = 1
        THEN Spliced(Insert(st, st.c.FunctionCalls[1], aux))
        ELSE Default(compileVarRef(st, NilRef, aux))

----------------------------------------------------------------------------
(* The dimensions loop of Compile. *)

DimOk(cs) == [c |-> cs, err |-> NoErr]
DimFail(cs, msg) == [c |-> cs, err |-> msg]

\* The offset argument of time(), lines 310-327 (repeated at 754-771);
\* c.Interval.Duration is already set.
timeOffset(cs, lit) ==
    CASE lit.type = "DurationLiteral" ->
            IF cs.Interval.Duration = 0 THEN DimFail(cs, PanicDivide)
            ELSE DimOk([cs EXCEPT !.Interval.Offset = GoRem(lit.val, cs.Interval.Duration)])
      [] lit.type = "TimeLiteral" ->
            DimOk([cs EXCEPT !.Interval.Offset =
                                 lit.val - Truncate(lit.val, cs.Interval.Duration)])
      [] lit.type = "Call" ->
            IF lit.name # "now"
            THEN DimFail(cs, "time dimension offset function must be now()")
            ELSE IF Len(lit.args) # 0
            THEN DimFail(cs, "time dimension offset now() function requires no arguments")
            ELSE DimOk([cs EXCEPT !.Interval.Offset =
                                      cs.Options.Now - Truncate(cs.Options.Now, cs.Interval.Duration)])
      [] OTHER -> DimFail(cs, "time dimension offset must be duration or now()")

\* The *influxql.Call case of the dimensions loop, lines 297-328 (repeated
\* at 741-772).
timeDimension(cs, expr) ==
    IF expr.name # "time" THEN DimFail(cs, "only time() calls allowed in dimensions")
    ELSE IF Len(expr.args) < 1 \/ Len(expr.args) > 2
    THEN DimFail(cs, "time dimension expected 1 or 2 arguments")
    ELSE IF expr.args[1].type # "DurationLiteral"
    THEN DimFail(cs, "time dimension must have duration argument")
    ELSE IF cs.Interval.Duration # 0 THEN DimFail(cs, ErrMultipleTime)
    ELSE LET c1 == [cs EXCEPT !.Interval.Duration = expr.args[1].val]
         IN  IF Len(expr.args) = 2 THEN timeOffset(c1, expr.args[2]) ELSE DimOk(c1)

\* The *influxql.VarRef case of the dimensions loop, lines 292-296
\* (repeated at 736-740).
tagDimension(cs, expr) ==
    IF ToLower(expr.val) = "time"
    THEN DimFail(cs, "time() is a function and expects at least one argument")
    ELSE DimOk([cs EXCEPT !.Dimensions = Append(@, expr.val)])

\* One round of the dimensions loop of draft 1, lines 290-335.
compileDimension(cs, d) ==
    CASE d.type = "VarRef" -> tagDimension(cs, d)
      [] d.type = "Call" -> timeDimension(cs, d)
      [] d.type = "Wildcard" -> DimOk(cs)
      [] d.type = "RegexLiteral" -> DimFail(cs, ErrUnimplemented)
      [] OTHER -> DimFail(cs, "only time and tag dimensions allowed")

\* One round of the dimensions loop of draft 2, lines 734-780.
compileDimension2(cs, d) ==
    CASE d.type = "VarRef" -> tagDimension(cs, d)
      [] d.type = "Call" -> timeDimension(cs, d)
      [] d.type = "Wildcard" -> DimFail(cs, ErrUnimplemented)
      [] d.type = "RegexLiteral" -> DimFail(cs, ErrUnimplemented)
      [] OTHER -> DimFail(cs, "only time and tag dimensions allowed")

----------------------------------------------------------------------------
(* Draft 2 (lines 472-822): top-down compilation.  The state carries the   *)
(* compiledField being compiled in st.f.  A compiledField reaches the      *)
(* statement through its `global` pointer; a method that dereferences a    *)
(* nil `global` panics.                                                    *)

\* The wildcard of a compiledField: nil, or the wildcard made by lines 672-674.
NoWildcard == [set |-> FALSE, NameFilters |-> <<>>, TypeFilters |-> {}]
NewWildcard == [set |-> TRUE, NameFilters |-> <<>>, TypeFilters |-> {}]

\* The compiledField literal of line 788: Field and Output are set, global
\* is left at its zero value, nil.
newCompiledField(i, out) ==
    [Field |-> i, Output |-> out, global |-> Nil, Wildcard |-> NoWildcard]

\* compiledField.wildcard, lines 670-676.
wildcard(st) ==
    IF ~st.f.Wildcard.set THEN [st EXCEPT !.f.Wildcard = NewWildcard] ELSE st

\* compiledField.wildcardFilter, lines 678-681.
wildcardFilter(st, filter) ==
    [wildcard(st) EXCEPT !.f.Wildcard.NameFilters = Append(@, filter)]

\* compiledField.wildcardFunction, lines 683-693.
wildcardFunction(st, name) ==
    IF name \in {"count", "first", "last", "distinct", "elapsed", "mode", "sample"}
    THEN [wildcard(st) EXCEPT !.f.Wildcard.TypeFilters = @ \cup {"Boolean"}]
    ELSE IF name \in {"min", "max"} THEN wildcard(st)
    ELSE [wildcard(st) EXCEPT !.f.Wildcard.TypeFilters = @ \cup {"String"}]

\* compiledField.wildcardFunctionFilter, lines 695-698.
wildcardFunctionFilter(st, name, filter) ==
    [wildcardFunction(st, name) EXCEPT !.f.Wildcard.NameFilters = Append(@, filter)]

\* compiledStatement.requireAuxiliaryFields, lines 818-822.
requireAuxiliaryFields(st) ==
    IF st.c.AuxiliaryFields = Nil
    THEN [Alloc(st, NewNode("AuxiliaryFields")) EXCEPT !.c.AuxiliaryFields = Last(st) + 1]
    ELSE st

\* The loop of draft 2's compileVarRef over c.Sources, lines 702-714, from
\* source i on.
RECURSIVE compileVarRef2Sources(_, _, _, _)
compileVarRef2Sources(st, merge, ref, i) ==
    IF i > Len(st.c.Sources) THEN Ok(st, Nil)
    ELSE IF st.c.Sources[i].kind = "Measurement"
    THEN compileVarRef2Sources(compileVarRefInput(st, merge, ref, st.c.Sources[i]),
                               merge, ref, i + 1)
    ELSE Fail(st, ErrUnimplemented)

\* compiledStatement.compileVarRef(ref, out) of draft 2, lines 700-717.
compileVarRef2(st, ref, out) ==
    LET merge == Last(st) + 1
        Then(r) == IF r.err # NoErr THEN r
                   ELSE Ok([r.st EXCEPT !.edges[out].w = merge], Nil)
    IN  Then(compileVarRef2Sources(Alloc(st, [NewNode("Merge") EXCEPT !.output = out]),
                                   merge, ref, 1))

\* A node that writes to `out`, bound to it, and the edge that will feed
\* the node: `out.Node = n; out, n.Input = AddEdge(nil, n)` (lines 539-540,
\* 622-623, 664-666).  Returns the state and the new edge.
bindNode(st, n, out) ==
    LET node == Last(st) + 1
        Out(a) == [st |-> [a.st EXCEPT !.nodes[node].input = <<a.e>>], e |-> a.e]
    IN  Out(AddEdge([Alloc(st, [n EXCEPT !.output = out]) EXCEPT !.edges[out].w = node],
                    Nil, node))

\* compiledField.compileDistinct(call, out, nested), lines 604-627.
field_compileDistinct(st, call, out, nested) ==
    LET Then(b) == compileVarRef2(b.st, call.args[1].val, b.e)
    IN  IF Len(call.args) = 0
        THEN Fail(st, "distinct function requires at least one argument")
        ELSE IF Len(call.args) # 1
        THEN Fail(st, "distinct function can only have one argument")
        ELSE IF call.args[1].type # "VarRef"
        THEN Fail(st, "expected field argument in distinct()")
        ELSE IF st.f.global = Nil THEN Fail(st, PanicNil)
        ELSE Then(bindNode(IF nested THEN st
                           ELSE [st EXCEPT !.c.FunctionCalls = Append(@, out)],
                           NewNode("Distinct"), out))

\* The switch of draft 2's compileFunction on the function's name,
\* lines 543-548.
markFunction2(cs, name) ==
    IF name \in SelectorNames THEN cs ELSE [cs EXCEPT !.OnlySelectors = FALSE]

\* The argument of the function, lines 550-572, fed into edge `in`.
field_compileFunctionInput(st, expr, in) ==
    LET arg0 == expr.args[1] IN
    IF expr.name = "count" /\ arg0.type = "Call" /\ arg0.name = "distinct"
    THEN field_compileDistinct(st, arg0, in, TRUE)
    ELSE IF expr.name = "count" /\ arg0.type = "Distinct"
    THEN field_compileDistinct(st, NewCall(arg0), in, TRUE)
    ELSE CASE arg0.type = "VarRef" -> compileVarRef2(st, arg0.val, in)
           [] arg0.type = "Wildcard" -> Ok(wildcardFunction(st, expr.name), Nil)
           [] arg0.type = "RegexLiteral" ->
                  Ok(wildcardFunctionFilter(st, expr.name, arg0.val), Nil)
           [] OTHER -> Fail(st, ErrFieldArg(expr.name))

\* compiledField.compileFunction(expr, out), lines 531-573.
field_compileFunction(st, expr, out) ==
    LET Then(b) == field_compileFunctionInput(
                       [b.st EXCEPT !.c = markFunction2(@, expr.name)], expr, b.e)
    IN  IF Len(expr.args) # 1 THEN Fail(st, ErrArgs(expr.name, 1, Len(expr.args)))
        ELSE IF st.f.global = Nil THEN Fail(st, PanicNil)
        ELSE Then(bindNode([st EXCEPT !.c.FunctionCalls = Append(@, out)],
                           [NewNode("FunctionCall") EXCEPT !.name = expr.name], out))

\* compiledField.compileTopBottom(call, out), lines 629-668.
field_compileTopBottom(st, call, out) ==
    LET Then(b) == compileVarRef2(b.st, call.args[1].val, b.e)
    IN  IF st.f.global = Nil THEN Fail(st, PanicNil)
        ELSE IF st.c.TopBottomFunction # ""
        THEN Fail(st, ErrCombined(st.c.TopBottomFunction))
        ELSE IF checkTopBottom(call) # NoErr THEN Fail(st, checkTopBottom(call))
        ELSE Then(bindNode([st EXCEPT !.c.TopBottomFunction = call.name],
                           [NewNode("TopBottomSelector") EXCEPT
                                !.dimensions = topBottomDimensions(call)],
                           out))

\* The second input edge of a binary node: `rhs, node.RHS = AddEdge(nil, node)`,
\* line 521.
addInputEdge(st, node) ==
    LET Out(a) == [st |-> [a.st EXCEPT !.nodes[node].input = Append(@, a.e)], e |-> a.e]
    IN  Out(AddEdge(st, Nil, node))

\* compiledField.compileExpr(expr, out), lines 474-529.
RECURSIVE field_compileExpr(_, _, _)
field_compileExpr(st, expr, out) ==
    LET node == Last(st) + 1
        Right(b) == field_compileExpr(b.st, expr.rhs, b.e)
        Left(lr) == IF lr.err # NoErr THEN lr ELSE Right(addInputEdge(lr.st, node))
        Binary(b) == Left(field_compileExpr(b.st, expr.lhs, b.e))
    IN  CASE expr.type = "VarRef" ->
                IF st.f.global = Nil THEN Fail(st, PanicNil)
                ELSE Ok(requireAuxiliaryFields(st), Nil)
          [] expr.type = "Wildcard" ->
                IF st.f.global = Nil THEN Fail(st, PanicNil)
                ELSE Fail(wildcard(requireAuxiliaryFields(st)), ErrUnimplemented)
          [] expr.type = "RegexLiteral" ->
                IF st.f.global = Nil THEN Fail(st, PanicNil)
                ELSE Fail(wildcardFilter(requireAuxiliaryFields(st), expr.val),
                          ErrUnimplemented)
          [] expr.type = "Call" ->
                IF expr.name \in {"count", "min", "max", "sum", "first", "last", "mean"}
                THEN field_compileFunction(st, expr, out)
                ELSE IF expr.name = "distinct"
                THEN field_compileDistinct(st, expr, out, FALSE)
                ELSE IF expr.name \in {"top", "bottom"}
                THEN field_compileTopBottom(st, expr, out)
                ELSE Fail(st, ErrUnimplemented)
          [] expr.type = "Distinct" -> field_compileDistinct(st, NewCall(expr), out, FALSE)
          [] expr.type = "BinaryExpr" ->
                IF IsLiteral(expr.lhs) THEN Fail(st, ErrUnimplemented)
                ELSE IF IsLiteral(expr.rhs) THEN Fail(st, ErrUnimplemented)
                ELSE Binary(bindNode(st, [NewNode("BinaryExpr") EXCEPT !.name = expr.op],
                                     out))
          [] OTHER -> Fail(st, ErrUnimplemented)

\* compiledStatement.validateFields of draft 2, lines 719-725.
validateFields2(cs) ==
    IF Len(cs.FunctionCalls) > 1 /\ cs.TopBottomFunction # ""
    THEN ErrCombined(cs.TopBottomFunction)
    ELSE NoErr

\* compiledStatement.linkAuxiliaryFields of draft 2, lines 575-602.
linkAuxiliaryFields2(st) ==
    LET aux == st.c.AuxiliaryFields
        Spliced(i) == Ok([i.st EXCEPT !.nodes[aux].input = <<i.in>>,
                                      !.nodes[aux].output = i.out], Nil)
        Default(a) == compileVarRef2([a.st EXCEPT !.nodes[aux].input = <<a.e>>],
                                     NilRef, a.e)
    IN  IF aux = Nil
        THEN IF Len(st.c.FunctionCalls) = 0 THEN Fail(st, ErrNoField) ELSE Ok(st, Nil)
        ELSE IF ~st.c.OnlySelectors THEN Fail(st, ErrMixAggregate)
        ELSE IF Len(st.c.FunctionCalls) > 1 THEN Fail(st, ErrMixSelectors)
        ELSE IF Len(st.c.FunctionCalls) = 1
        THEN Spliced(Insert(st, st.c.FunctionCalls[1], aux))
        ELSE Default(AddEdge(st, Nil, aux))

----------------------------------------------------------------------------
(* The statements Compile is given. *)

SeqsUpTo(S, n) == UNION {[1..k -> S] : k \in 0..n}

Value == VarRef("value")
Host == VarRef("host")
Time == VarRef("time")

\* What a binary expression of the model has on either side.
Operands ==
    {Value, IntegerLiteral(1), Call("min", <<Value>>), Call("distinct", <<Value>>)}

FieldExprs ==
    {Time, Value, WildcardExpr,
     Call("mean", <<Value>>), Call("min", <<Value>>), Call("max", <<Value>>),
     Call("count", <<Call("distinct", <<Value>>)>>),
     Call("count", <<DistinctExpr("value")>>),
     Call("distinct", <<Value>>), DistinctExpr("value"),
     Call("top", <<Value, IntegerLiteral(3)>>),
     Call("bottom", <<Value, Host, IntegerLiteral(3)>>),
     Call("top", <<Value, IntegerLiteral(0)>>),
     Call("mean", <<>>), Call("mean", <<IntegerLiteral(1)>>),
     Call("percentile", <<Value>>),
     BinaryExprAst(Call("top", <<Value, IntegerLiteral(3)>>), Call("max", <<Value>>))}
    \cup {BinaryExprAst(l, r) : l \in Operands, r \in Operands}

DimExprs ==
    {Host, Time, VarRef("TIME"), WildcardExpr, RegexLiteral("h.*"), IntegerLiteral(1),
     Call("time", <<DurationLiteral(5)>>),
     Call("time", <<DurationLiteral(0)>>),
     Call("time", <<DurationLiteral(5), DurationLiteral(7)>>),
     Call("time", <<DurationLiteral(5), DurationLiteral(-3)>>),
     Call("time", <<DurationLiteral(0), DurationLiteral(3)>>),
     Call("time", <<DurationLiteral(5), TimeLiteral(12)>>),
     Call("time", <<DurationLiteral(5), Call("now", <<>>)>>),
     Call("time", <<DurationLiteral(5), Call("now", <<IntegerLiteral(1)>>)>>),
     Call("time", <<DurationLiteral(5), Call("today", <<>>)>>),
     Call("time", <<DurationLiteral(5), IntegerLiteral(1)>>),
     Call("time", <<IntegerLiteral(5)>>),
     Call("time", <<>>),
     Call("mean", <<Value>>)}

SourceKinds == {Measurement("cpu"), Measurement("mem"), SubQuery("sub")}

\* CompileOptions.Now: 0 is the zero Time, for which newCompiler reads the clock.
OptNows == {0, 7}
ClockNows == {11, 13}

Statement(s, d, f) == [Sources |-> s, Dimensions |-> d, Fields |-> f]

\* Statements that vary the fields, the dimensions and the sources in turn.
FieldStatements ==
    {Statement(<<Measurement("cpu")>>, <<>>, f) : f \in SeqsUpTo(FieldExprs, MaxFields)}

DimStatements ==
    {Statement(<<Measurement("cpu")>>, d, f) :
        d \in SeqsUpTo(DimExprs, MaxDims),
        f \in {<<Call("mean", <<Value>>)>>, <<Call("mean", <<>>)>>}}

SourceStatements ==
    {Statement(s, d, f) :
        s \in SeqsUpTo(SourceKinds, MaxSources),
        d \in {<<>>, <<Call("time", <<DurationLiteral(5)>>)>>},
        f \in {<<Value>>, <<Call("mean", <<Value>>)>>, <<Call("min", <<Value>>), Value>>,
               <<Call("top", <<Value, IntegerLiteral(3)>>)>>, <<Time>>}}

\* Longer field lists over a few kinds of field.
OrderStatements ==
    {Statement(<<Measurement("cpu")>>, <<>>, f) :
        f \in SeqsUpTo({Time, Value, Call("min", <<Value>>),
                        Call("top", <<Value, IntegerLiteral(3)>>)}, MaxFields + 1)}

Refs == {NilRef, "value", "host"}

----------------------------------------------------------------------------
(* Compile, lines 283-356 and 727-802, and Select, lines 358-363 and       *)
(* 804-811, as steps.                                                      *)

Running == [c |-> FALSE, err |-> NoErr, at |-> "", i |-> 0]

\* Where Compile continues once the dimensions loop is over.
AfterDims(s) == IF Len(s.Fields) = 0 THEN "validate" ELSE "fields"

InitWith(s, o, clock, d, start) ==
    /\ draft = d
    /\ stmt = s
    /\ opt = o
    /\ pc = start
    /\ idx = 1
    /\ c = newCompiler(s, o, clock)
    /\ nodes = <<>>
    /\ edges = <<>>
    /\ ret = Running
    /\ fieldOut = <<>>
    /\ targets = <<>>
    /\ selected = <<>>
    /\ calls = <<>>

Init ==
    \E d \in {1, 2} :
        \/ \E s \in FieldStatements \cup SourceStatements \cup OrderStatements :
               InitWith(s, [Now |-> 7], 11, d,
                        IF Len(s.Dimensions) = 0 THEN AfterDims(s) ELSE "dims")
        \/ \E s \in DimStatements, n \in OptNows, clock \in ClockNows :
               InitWith(s, [Now |-> n], clock, d,
                        IF Len(s.Dimensions) = 0 THEN AfterDims(s) ELSE "dims")

\* `return nil, err`, or the panic that ends the process.
Returns(e) ==
    /\ ret' = [c |-> FALSE, err |-> e, at |-> pc, i |-> idx]
    /\ pc' = IF IsPanic(e) THEN "panicked" ELSE "failed"

\* One round of the loop over stmt.Dimensions.
CompileDimension ==
    /\ pc = "dims"
    /\ LET Step(r) ==
               IF r.err # NoErr
               THEN Returns(r.err) /\ UNCHANGED <<c, idx>>
               ELSE /\ c' = r.c
                    /\ ret' = ret
                    /\ IF idx < Len(stmt.Dimensions)
                       THEN idx' = idx + 1 /\ pc' = pc
                       ELSE idx' = 1 /\ pc' = AfterDims(stmt)
       IN  Step(IF draft = 1 THEN compileDimension(c, stmt.Dimensions[idx])
                ELSE compileDimension2(c, stmt.Dimensions[idx]))
    /\ UNCHANGED <<draft, stmt, opt, nodes, edges, fieldOut, targets, selected, calls>>

\* Fault: the loop over the fields compiles a bare time field like any other.
compileField_NoSkip(st, f) ==
    LET Then(r) == IF r.err # NoErr THEN r
                   ELSE Ok([r.st EXCEPT !.c.OutputEdges = Append(@, r.out)], r.out)
    IN  Then(compileExpr(st, f))

\* One round of the loop over stmt.Fields of draft 1, lines 337-347.
compileField(st, f) ==
    LET Then(r) == IF r.err # NoErr THEN r
                   ELSE Ok([r.st EXCEPT !.c.OutputEdges = Append(@, r.out)], r.out)
    IN  IF f.type = "VarRef" /\ f.val = "time" THEN Ok(st, Nil)
        ELSE Then(compileExpr(st, f))

\* One round of the loop over stmt.Fields of draft 2, lines 782-793; i is
\* the position of f in stmt.Fields.
compileField2(st, f, i) ==
    LET Then(r, out) ==
            IF r.err # NoErr THEN Fail(st, r.err)
            ELSE Ok(State([r.st.c EXCEPT !.Fields = Append(@, r.st.f)],
                          r.st.nodes, r.st.edges), out)
        Edge(e) == Then(field_compileExpr(
                            [c |-> e.st.c, nodes |-> e.st.nodes, edges |-> e.st.edges,
                             f |-> newCompiledField(i, e.e)], f, e.e),
                        e.e)
    IN  IF f.type = "VarRef" /\ f.val = "time" THEN Ok(st, Nil)
        ELSE Edge(NewEdge(st, Nil))

CompileField ==
    /\ pc = "fields"
    /\ LET Step(r) ==
               IF r.err # NoErr
               THEN Returns(r.err) /\ UNCHANGED <<c, nodes, edges, idx, fieldOut>>
               ELSE /\ c' = r.st.c
                    /\ nodes' = r.st.nodes
                    /\ edges' = r.st.edges
                    /\ fieldOut' = IF r.out = Nil THEN fieldOut
                                   ELSE Append(fieldOut, <<idx, r.out>>)
                    /\ ret' = ret
                    /\ IF idx < Len(stmt.Fields)
                       THEN idx' = idx + 1 /\ pc' = pc
                       ELSE idx' = 1 /\ pc' = "validate"
       IN  Step(IF draft = 1 THEN compileField(State(c, nodes, edges), stmt.Fields[idx])
                ELSE compileField2(State(c, nodes, edges), stmt.Fields[idx], idx))
    /\ UNCHANGED <<draft, stmt, opt, targets, selected, calls>>

\* Fault: Compile goes on to the linking without the exclusivity check.
ValidateFields_Late ==
    /\ pc = "validate"
    /\ pc' = "link"
    /\ ret' = ret
    /\ UNCHANGED <<draft, stmt, opt, idx, c, nodes, edges, fieldOut, targets, selected, calls>>

\* Lines 349-351 and 795-797.
ValidateFields ==
    /\ pc = "validate"
    /\ LET Step(e) == IF e # NoErr THEN Returns(e) ELSE pc' = "link" /\ ret' = ret
       IN  Step(IF draft = 1 THEN validateFields(c) ELSE validateFields2(c))
    /\ UNCHANGED <<draft, stmt, opt, idx, c, nodes, edges, fieldOut, targets, selected, calls>>

\* Lines 352-355 and 798-801.
LinkAuxiliaryFields ==
    /\ pc = "link"
    /\ LET Step(r) ==
               IF r.err # NoErr
               THEN Returns(r.err) /\ UNCHANGED <<c, nodes, edges>>
               ELSE /\ c' = r.st.c
                    /\ nodes' = r.st.nodes
                    /\ edges' = r.st.edges
                    /\ ret' = [c |-> TRUE, err |-> NoErr, at |-> "", i |-> 0]
                    /\ pc' = "compiled"
       IN  Step(IF draft = 1 THEN linkAuxiliaryFields(State(c, nodes, edges))
                ELSE linkAuxiliaryFields2(State(c, nodes, edges)))
    /\ UNCHANGED <<draft, stmt, opt, idx, fieldOut, targets, selected, calls>>

\* The edges Select walks: c.OutputEdges (line 359), or the Output of each
\* of c.Fields (lines 806-808).
selectEdges(cs, d) ==
    IF d = 1 THEN cs.OutputEdges ELSE [i \in 1..Len(cs.Fields) |-> cs.Fields[i].Output]

\* One round of the loop of Select: plan.AddTarget(out).
SelectAddTarget ==
    /\ pc = "compiled"
    /\ idx <= Len(selectEdges(c, draft))
    /\ targets' = Append(targets, selectEdges(c, draft)[idx])
    /\ idx' = idx + 1
    /\ UNCHANGED <<draft, stmt, opt, pc, c, nodes, edges, ret, fieldOut, selected, calls>>

\* The return of Select, lines 362 and 810.
SelectReturn ==
    /\ pc = "compiled"
    /\ idx > Len(selectEdges(c, draft))
    /\ selected' = selectEdges(c, draft)
    /\ pc' = "selected"
    /\ UNCHANGED <<draft, stmt, opt, idx, c, nodes, edges, ret, fieldOut, targets, calls>>

Next ==
    \/ CompileDimension
    \/ CompileField
    \/ ValidateFields
    \/ LinkAuxiliaryFields
    \/ SelectAddTarget
    \/ SelectReturn

Spec == Init /\ [][Next]_vars

----------------------------------------------------------------------------
(* compileVarRef on its own: a compiler over a source list is asked for    *)
(* the subgraph of one reference after another.                            *)

VarRefStatements ==
    {Statement(s, <<>>, <<>>) : s \in SeqsUpTo(SourceKinds, MaxSources)}

InitVarRef ==
    \E d \in {1, 2}, s \in VarRefStatements : InitWith(s, [Now |-> 7], 11, d, "varref")

\* One call c.compileVarRef(ref, nil) of draft 1, or c.compileVarRef(ref, out)
\* of draft 2 with the write end of a new edge.
CallCompileVarRef ==
    /\ pc = "varref"
    /\ Len(calls) < MaxCalls
    /\ \E ref \in Refs :
           LET Step(r) ==
                   /\ calls' = Append(calls, [ref |-> ref, merge |-> Len(nodes) + 1,
                                              err |-> r.err])
                   /\ nodes' = IF IsPanic(r.err) THEN nodes ELSE r.st.nodes
                   /\ edges' = IF IsPanic(r.err) THEN edges ELSE r.st.edges
                   /\ pc' = IF IsPanic(r.err) THEN "panicked" ELSE pc
               Edge(e) == Step(compileVarRef2(e.st, ref, e.e))
           IN  IF draft = 1 THEN Step(compileVarRef(State(c, nodes, edges), ref, Nil))
               ELSE Edge(NewEdge(State(c, nodes, edges), Nil))
    /\ UNCHANGED <<draft, stmt, opt, idx, c, ret, fieldOut, targets, selected>>

NextVarRef == CallCompileVarRef

SpecVarRef == InitVarRef /\ [][NextVarRef]_vars

----------------------------------------------------------------------------
(* What a statement holds, read off its AST. *)

\* The calls of an expression in the order compileExpr reaches them; a
\* Distinct node counts as a call of distinct.
RECURSIVE CallsOf(_)
CallsOf(e) ==
    CASE e.type = "Call" ->
            IF e.name = "count" /\ Len(e.args) = 1 /\ e.args[1].type \in {"Call", "Distinct"}
            THEN CallsOf(e.args[1]) \o <<e.name>>
            ELSE <<e.name>>
      [] e.type = "Distinct" -> <<"distinct">>
      [] e.type = "BinaryExpr" -> CallsOf(e.lhs) \o CallsOf(e.rhs)
      [] OTHER -> <<>>

\* The bare field references of an expression: those compileExpr itself
\* meets, not the arguments of calls.
RECURSIVE BareRefsOf(_)
BareRefsOf(e) ==
    CASE e.type = "VarRef" -> <<e.val>>
      [] e.type = "BinaryExpr" -> BareRefsOf(e.lhs) \o BareRefsOf(e.rhs)
      [] OTHER -> <<>>

IsTimeField(f) == f.type = "VarRef" /\ f.val = "time"

\* The positions of the fields Compile does not skip.
CompiledFields(s) == {i \in 1..Len(s.Fields) : ~IsTimeField(s.Fields[i])}

RECURSIVE Flatten(_)
Flatten(ss) == IF ss = <<>> THEN <<>> ELSE Head(ss) \o Flatten(Tail(ss))

StmtCalls(s) ==
    Flatten([i \in 1..Len(s.Fields) |->
                 IF IsTimeField(s.Fields[i]) THEN <<>> ELSE CallsOf(s.Fields[i])])
StmtBareRefs(s) ==
    Flatten([i \in 1..Len(s.Fields) |->
                 IF IsTimeField(s.Fields[i]) THEN <<>> ELSE BareRefsOf(s.Fields[i])])

Range(q) == {q[i] : i \in 1..Len(q)}
Count(q, S) == Cardinality({i \in 1..Len(q) : q[i] \in S})

Aggregates == {"count", "sum", "mean"}
Selectors == {"min", "max", "first", "last"}
TopBottom == {"top", "bottom"}

\* Compile has returned, or the process has ended.
Returned == pc \in {"failed", "panicked", "compiled", "selected"}

\* Every dimension and every field was compiled and none of them ended the
\* compilation: Compile got as far as validateFields.
FieldsCompiled == Returned /\ ret.at \notin {"dims", "fields"}

----------------------------------------------------------------------------
(* Claims. *)

\* C1: when every dimension and field compiles (Compile reaches the
\* whole-statement checks), the statement has no top/bottom call, and its
\* fields hold a call to count, sum or mean and a bare field reference, in
\* any order, Compile returns "mixing aggregate and non-aggregate queries is
\* not supported" and no statement.
C1_MixAggregate ==
    (/\ FieldsCompiled
     /\ Range(StmtCalls(stmt)) \cap TopBottom = {}
     /\ Range(StmtCalls(stmt)) \cap Aggregates # {}
     /\ StmtBareRefs(stmt) # <<>>)
    => (~ret.c /\ ret.err = ErrMixAggregate)

\* An aggregate after a bare field was compiled and the mixing error returned.
C1_Witness ==
    /\ FieldsCompiled
    /\ Len(stmt.Fields) = 2
    /\ stmt.Fields[1] = Value
    /\ stmt.Fields[2] = Call("mean", <<Value>>)
    /\ ret.at = "link"
    /\ ret.err = ErrMixAggregate

CombinedErrors == {ErrCombined(n) : n \in TopBottom}

\* No dimension and no field ended the compilation with an error of its
\* own; a top/bottom call that meets an earlier one is a conflict between
\* fields, not a structural error.
NoStructuralError ==
    /\ Returned
    /\ ret.at # "dims"
    /\ ret.at = "fields" => ret.err \in CombinedErrors

FirstTopBottom(q) == q[Min({i \in 1..Len(q) : q[i] \in TopBottom})]

\* C2: when no field has a structural error and the statement holds a top
\* or bottom call together with any other call, before or after it, Compile
\* fails with "selector function X() cannot be combined with other
\* functions", X the first top/bottom call in field order.
C2_TopBottomExclusive ==
    (/\ NoStructuralError
     /\ Range(StmtCalls(stmt)) \cap TopBottom # {}
     /\ Len(StmtCalls(stmt)) >= 2)
    => (~ret.c /\ ret.err = ErrCombined(FirstTopBottom(StmtCalls(stmt))))

\* A selector compiled before top(): only validateFields sees the conflict.
C2_Witness ==
    /\ NoStructuralError
    /\ Len(stmt.Fields) = 2
    /\ stmt.Fields[1] = Call("min", <<Value>>)
    /\ stmt.Fields[2] = Call("top", <<Value, IntegerLiteral(3)>>)
    /\ ret.at = "validate"
    /\ ret.err = ErrCombined("top")

\* The auxiliary-fields node sits immediately downstream of the one
\* registered call: the call's output feeds it, and it feeds the edge the
\* call was registered with.
AuxSpliced ==
    /\ c.AuxiliaryFields # Nil
    /\ Len(c.FunctionCalls) = 1
    /\ LET aux == c.AuxiliaryFields
           fc == c.FunctionCalls[1]
       IN  /\ Len(nodes[aux].input) = 1
           /\ nodes[aux].output = fc
           /\ edges[fc].w = aux
           /\ edges[nodes[aux].input[1]].r = aux
           /\ edges[nodes[aux].input[1]].w # Nil
           /\ nodes[edges[nodes[aux].input[1]].w].kind = "FunctionCall"
           /\ nodes[edges[nodes[aux].input[1]].w].name \in Selectors
           /\ nodes[edges[nodes[aux].input[1]].w].output = nodes[aux].input[1]

\* The statements C3 is about: no aggregate, no top/bottom, a bare field
\* reference, and every field compiled.
C3_Case ==
    /\ FieldsCompiled
    /\ Range(StmtCalls(stmt)) \cap (TopBottom \cup Aggregates) = {}
    /\ StmtBareRefs(stmt) # <<>>

\* C3 as claimed: two or more selector calls with a bare field give "mixing
\* multiple selector functions with tags or fields is not supported"; exactly
\* one selector call with a bare field succeeds, the auxiliary fields
\* spliced in after the call.
C3_Original ==
    C3_Case =>
        /\ Count(StmtCalls(stmt), Selectors) >= 2 => (~ret.c /\ ret.err = ErrMixSelectors)
        /\ Count(StmtCalls(stmt), Selectors) = 1 => (ret.c /\ AuxSpliced)

\* C3, amended: two or more selector calls with a bare field give the
\* error; exactly one selector call that is the statement's only call (no
\* distinct beside it) with a bare field succeeds, the auxiliary fields
\* spliced in immediately downstream of the call's output edge.
C3_MixSelectors ==
    C3_Case =>
        /\ Count(StmtCalls(stmt), Selectors) >= 2 => (~ret.c /\ ret.err = ErrMixSelectors)
        /\ (Count(StmtCalls(stmt), Selectors) = 1 /\ Len(StmtCalls(stmt)) = 1)
               => (ret.c /\ AuxSpliced)

\* One selector and a bare field compiled, and the auxiliary fields spliced.
C3_Witness ==
    /\ C3_Case
    /\ stmt.Fields = <<Call("min", <<Value>>), Value>>
    /\ ret.c
    /\ AuxSpliced

\* Every field of the statement was compiled without an error.
FieldsDone ==
    \/ pc \in {"validate", "link", "compiled", "selected"}
    \/ Returned /\ ret.at \in {"validate", "link"}

CountDistinctFields ==
    {Call("count", <<Call("distinct", <<Value>>)>>), Call("count", <<DistinctExpr("value")>>)}
DistinctFields == {Call("distinct", <<Value>>), DistinctExpr("value")}

\* C4 as claimed: a statement whose one field is count(distinct(x)), the
\* argument a call or a Distinct node, has exactly one entry in
\* FunctionCalls once the field is compiled; so has one whose field is
\* distinct(x).
C4_Original ==
    (/\ FieldsDone
     /\ Len(stmt.Fields) = 1
     /\ stmt.Fields[1] \in CountDistinctFields \cup DistinctFields)
    => Len(c.FunctionCalls) = 1

\* The time() calls of the dimensions with 1 or 2 arguments, the first a duration.
TimeCalls(s) ==
    {i \in 1..Len(s.Dimensions) :
        /\ s.Dimensions[i].type = "Call"
        /\ s.Dimensions[i].name = "time"
        /\ Len(s.Dimensions[i].args) \in {1, 2}
        /\ s.Dimensions[i].args[1].type = "DurationLiteral"}

\* C5 as claimed: a dimension list with two or more time() calls, whatever
\* their durations, makes Compile return "multiple time dimensions not
\* allowed".
C5_Original ==
    (/\ Returned
     /\ Cardinality(TimeCalls(stmt)) >= 2
     /\ \A i \in 1..Len(stmt.Dimensions) :
            stmt.Dimensions[i] \in {Call("time", <<DurationLiteral(0)>>),
                                    Call("time", <<DurationLiteral(5)>>),
                                    Call("time", <<DurationLiteral(5), DurationLiteral(7)>>)})
    => (~ret.c /\ ret.err = ErrMultipleTime)

\* C6: when every dimension and field compiled, no auxiliary field was
\* requested and no call registered, Compile returns "at least 1 non-time
\* field must be queried"; so a compiled statement has auxiliary fields or a
\* registered call.
C6_NonTimeField ==
    /\ (FieldsCompiled /\ c.AuxiliaryFields = Nil /\ Len(c.FunctionCalls) = 0)
           => (~ret.c /\ ret.err = ErrNoField)
    /\ (Returned /\ ret.c) => (c.AuxiliaryFields # Nil \/ Len(c.FunctionCalls) >= 1)

\* A statement of bare time fields went through the dimensions and the
\* fields and was refused.
C6_Witness ==
    /\ FieldsCompiled
    /\ stmt.Fields = <<Time, Time>>
    /\ c.AuxiliaryFields = Nil
    /\ c.FunctionCalls = <<>>
    /\ ret.err = ErrNoField

\* The k-th field Compile does not skip.
NthCompiled(s, k) ==
    CHOOSE i \in CompiledFields(s) : Cardinality({j \in CompiledFields(s) : j < i}) = k - 1

\* The output edges of the fields, as Compile got them, in field order.
FieldEdges == [k \in 1..Len(fieldOut) |-> fieldOut[k][2]]

\* After Compile: one edge per field that is no bare time field, in field
\* order, all different; AddTarget has received the edges Select has walked
\* so far; Select returns them all.
C7_Edges ==
    /\ pc \in {"compiled", "selected"} =>
           /\ Len(fieldOut) = Cardinality(CompiledFields(stmt))
           /\ \A k \in 1..Len(fieldOut) : fieldOut[k][1] = NthCompiled(stmt, k)
           /\ \A k, l \in 1..Len(fieldOut) : k # l => fieldOut[k][2] # fieldOut[l][2]
           /\ selectEdges(c, draft) = FieldEdges
    /\ pc = "compiled" => targets = SubSeq(FieldEdges, 1, idx - 1)
    /\ pc = "selected" => (selected = FieldEdges /\ targets = FieldEdges)

\* The round of the fields loop on a bare time field changes nothing of
\* the compile state.
C7_TimeStep ==
    [][(pc = "fields" /\ IsTimeField(stmt.Fields[idx]))
          => UNCHANGED <<c, nodes, edges, fieldOut, ret>>]_vars

\* C7: after a successful Compile, Select returns one output edge per field
\* that is no bare time reference, in field order, and calls AddTarget once
\* per edge in that order; a bare time field adds no edge and no compile
\* state.
C7_Select == []C7_Edges /\ C7_TimeStep

\* Select returned the edges of min(value) and value, the time field
\* between them skipped.
C7_Witness ==
    /\ pc = "selected"
    /\ stmt.Fields = <<Call("min", <<Value>>), Time, Value>>
    /\ Len(selected) = 2
    /\ targets = selected

\* C8 as claimed: Compile never aborts the process.
C8_Original == pc # "panicked"

\* A binary expression with a literal on exactly one side and a field
\* reference, a selector call or a distinct call on the other.
OneLiteralSide(f) ==
    /\ f.type = "BinaryExpr"
    /\ \/ IsLiteral(f.lhs) /\ f.rhs \in Operands /\ ~IsLiteral(f.rhs)
       \/ IsLiteral(f.rhs) /\ f.lhs \in Operands /\ ~IsLiteral(f.lhs)

\* C9 as claimed: the first field of a statement whose dimensions compile,
\* a binary expression with a literal on exactly one side, does not end the
\* compilation with "unimplemented".
C9_Original ==
    (/\ Returned
     /\ ret.at # "dims"
     /\ Len(stmt.Fields) >= 1
     /\ OneLiteralSide(stmt.Fields[1]))
    => ~(ret.at = "fields" /\ ret.i = 1 /\ ret.err = ErrUnimplemented)

\* The Merge node a compileVarRef call made: one input per source, the i-th
\* from an IteratorCreator of the i-th source and of the call's reference.
MergeOf(call) ==
    LET m == call.merge IN
    /\ m \in 1..Len(nodes)
    /\ nodes[m].kind = "Merge"
    /\ Len(nodes[m].input) = Len(stmt.Sources)
    /\ \A i \in 1..Len(nodes[m].input) :
           LET e == nodes[m].input[i] IN
           /\ edges[e].r = m
           /\ nodes[edges[e].w].kind = "IteratorCreator"
           /\ nodes[edges[e].w].measurement = stmt.Sources[i].name
           /\ nodes[edges[e].w].expr = call.ref
           /\ nodes[edges[e].w].output = e

\* C10: over n measurements, each compileVarRef call makes exactly one Merge
\* node, with exactly n inputs, the i-th a leaf IteratorCreator of the i-th
\* declared source and of the given reference; none for n = 0.
C10_MergeInputs ==
    (\A i \in 1..Len(stmt.Sources) : stmt.Sources[i].kind = "Measurement")
    => /\ \A k \in 1..Len(calls) : calls[k].err = NoErr /\ MergeOf(calls[k])
       /\ Cardinality({n \in 1..Len(nodes) : nodes[n].kind = "Merge"}) = Len(calls)
       /\ Cardinality({n \in 1..Len(nodes) : nodes[n].kind = "IteratorCreator"})
              = Len(calls) * Len(stmt.Sources)

\* A call over the sources cpu, mem made a Merge of two inputs.
C10_Witness ==
    /\ stmt.Sources = <<Measurement("cpu"), Measurement("mem")>>
    /\ Len(calls) >= 1
    /\ calls[1].err = NoErr
    /\ Len(nodes[calls[1].merge].input) = 2


----------------------------------------------------------------------------
(* The interval of a compiled statement. *)

\* The statement has one dimension that is a call, and it is time(d) or
\* time(d, o) with duration literals and d > 0.
OneTimeDimension(s, i) ==
    /\ {j \in 1..Len(s.Dimensions) : s.Dimensions[j].type = "Call"} = {i}
    /\ i \in TimeCalls(s)
    /\ s.Dimensions[i].args[1].val > 0
    /\ Len(s.Dimensions[i].args) = 2 => s.Dimensions[i].args[2].type = "DurationLiteral"

\* C11 as claimed: after Compile succeeds on a statement whose time
\* dimension is time(d, o) with duration literals d > 0 and o, the interval
\* has Duration = d and Offset = o modulo d, so 0 <= Offset < Duration, for
\* negative o and o >= d as well; after time(d) the offset is 0.
C11_Original ==
    \A i \in 1..Len(stmt.Dimensions) :
        (ret.c /\ OneTimeDimension(stmt, i)) =>
            LET args == stmt.Dimensions[i].args
            IN  /\ c.Interval.Duration = args[1].val
                /\ c.Interval.Offset = IF Len(args) = 2 THEN args[2].val % args[1].val ELSE 0
                /\ 0 <= c.Interval.Offset
                /\ c.Interval.Offset < c.Interval.Duration

----------------------------------------------------------------------------
(* The edges of a compiled graph. *)

\* The fields' outermost output edges, which Select hands to the Plan.
OutermostEdges == Range(selectEdges(c, draft))

\* Edge e has a producer, and a consumer unless it is an outermost edge.
Bound(e) ==
    /\ edges[e].w # Nil
    /\ e \notin OutermostEdges => edges[e].r # Nil

----------------------------------------------------------------------------
(* Compile from its first line to its return, as one function of the       *)
(* statement, to set one draft's outcome beside the other's.               *)

\* The loop over stmt.Dimensions from round i on.
RECURSIVE compileDimensions(_, _, _, _)
compileDimensions(d, cs, ds, i) ==
    LET Then(r) == IF r.err # NoErr THEN r ELSE compileDimensions(d, r.c, ds, i + 1)
    IN  IF i > Len(ds) THEN DimOk(cs)
        ELSE Then(IF d = 1 THEN compileDimension(cs, ds[i]) ELSE compileDimension2(cs, ds[i]))

\* The loop over stmt.Fields from round i on.
RECURSIVE compileFields(_, _, _, _)
compileFields(d, st, fs, i) ==
    LET Then(r) == IF r.err # NoErr THEN r ELSE compileFields(d, r.st, fs, i + 1)
    IN  IF i > Len(fs) THEN Ok(st, Nil)
        ELSE Then(IF d = 1 THEN compileField(st, fs[i]) ELSE compileField2(st, fs[i], i))

\* Compile of draft d, lines 283-356 and 727-802.
Compile(d, s, o, clock) ==
    LET Link(st) == IF d = 1 THEN linkAuxiliaryFields(st) ELSE linkAuxiliaryFields2(st)
        Validate(r, e) == IF e # NoErr THEN Fail(r.st, e) ELSE Link(r.st)
        Fields(r) ==
            IF r.err # NoErr THEN r
            ELSE Validate(r, IF d = 1 THEN validateFields(r.st.c)
                             ELSE validateFields2(r.st.c))
        Dims(r) ==
            IF r.err # NoErr THEN Fail(State(r.c, <<>>, <<>>), r.err)
            ELSE Fields(compileFields(d, State(r.c, <<>>, <<>>), s.Fields, 1))
    IN  Dims(compileDimensions(d, newCompiler(s, o, clock), s.Dimensions, 1))

\* What a caller of Compile can tell: the error, or what the compiled
\* statement holds.
Outcome(cs, err) ==
    IF err # NoErr THEN [ok |-> FALSE, err |-> err]
    ELSE [ok |-> TRUE, Dimensions |-> cs.Dimensions, Interval |-> cs.Interval,
          OnlySelectors |-> cs.OnlySelectors,
          TopBottomFunction |-> cs.TopBottomFunction,
          aux |-> cs.AuxiliaryFields # Nil, calls |-> Len(cs.FunctionCalls)]

OutcomeOf(r) == Outcome(r.st.c, r.err)

\* No wildcard and no regex anywhere in the expression.
RECURSIVE Plain(_)
Plain(e) ==
    CASE e.type \in {"Wildcard", "RegexLiteral"} -> FALSE
      [] e.type = "Call" -> \A i \in 1..Len(e.args) : Plain(e.args[i])
      [] e.type = "BinaryExpr" -> Plain(e.lhs) /\ Plain(e.rhs)
      [] OTHER -> TRUE

\* The statements C13 speaks of.
C13_Case(s) ==
    /\ \A i \in 1..Len(s.Sources) : s.Sources[i].kind = "Measurement"
    /\ \A i \in 1..Len(s.Fields) : Plain(s.Fields[i])
    /\ \A i \in 1..Len(s.Dimensions) : Plain(s.Dimensions[i])

\* C13 as claimed: on a statement whose sources are all measurements and
\* that holds no wildcard or regex, the draft that ran and the other draft
\* both succeed or both fail with the same error message, and on success
\* end with the same Dimensions, Interval, OnlySelectors, TopBottomFunction,
\* AuxiliaryFields presence and number of registered function calls.
C13_Original ==
    (pc \in {"failed", "panicked", "compiled"} /\ C13_Case(stmt)) =>
        Outcome(c, ret.err) = OutcomeOf(Compile(3 - draft, stmt, opt, c.Options.Now))

----------------------------------------------------------------------------
(* The order of the checks of Compile. *)

\* The statement breaks the top/bottom exclusivity and the auxiliary-field
\* rule at once: a top or bottom call, another call, and a bare field.
ViolatesBoth(s) ==
    /\ Range(StmtCalls(s)) \cap TopBottom # {}
    /\ Len(StmtCalls(s)) >= 2
    /\ StmtBareRefs(s) # <<>>

\* When all fields compiled, such a statement gets the exclusivity error of
\* validateFields and not a mixing error of linkAuxiliaryFields.
C14_Exclusive ==
    (FieldsCompiled /\ ViolatesBoth(stmt)) =>
        /\ ~ret.c
        /\ ret.at = "validate"
        /\ ret.err = ErrCombined(FirstTopBottom(StmtCalls(stmt)))
        /\ ret.err \notin {ErrMixAggregate, ErrMixSelectors}

\* What the dimensions of the statement come to on their own.
DimensionsResult == compileDimensions(draft, newCompiler(stmt, opt, c.Options.Now),
                                      stmt.Dimensions, 1)

\* A statement with a dimension error gets that error, from the dimensions
\* loop, whatever its fields are.
C14_DimensionFirst ==
    LET Then(r) == (r.err # NoErr /\ ~IsPanic(r.err)) =>
                       (~ret.c /\ ret.at = "dims" /\ ret.err = r.err)
    IN  Returned => Then(DimensionsResult)

\* Compile moves from the dimensions to the fields to validateFields to
\* linkAuxiliaryFields, and an error of the linking is returned only when
\* validateFields found none.
C14_Steps ==
    [][/\ pc' = "dims" => pc = "dims"
       /\ pc' = "fields" => pc \in {"dims", "fields"}
       /\ pc' = "validate" => pc \in {"dims", "fields", "validate"}
       /\ pc' = "link" => (pc \in {"validate", "link"}
                           /\ (IF draft = 1 THEN validateFields(c)
                               ELSE validateFields2(c)) = NoErr)
       /\ (pc = "link" /\ pc' = "failed") => ret'.at = "link"]_vars

\* C14: the whole-statement checks run in a fixed order after all fields
\* compile: validateFields before the auxiliary-field linking, so a
\* statement that violates both (top(value, 3), min(value) and a bare field)
\* reports "selector function top() cannot be combined with other
\* functions" and never a mixing error; and a dimension error is reported
\* in preference to any field error.
C14_CheckOrder == [](C14_Exclusive /\ C14_DimensionFirst) /\ C14_Steps

\* top(value, 3), min(value) and a bare field were all compiled and
\* validateFields returned the exclusivity error.
C14_Witness ==
    /\ FieldsCompiled
    /\ stmt.Fields = <<Call("top", <<Value, IntegerLiteral(3)>>), Call("min", <<Value>>), Value>>
    /\ ret.at = "validate"
    /\ ret.err = ErrCombined("top")
====
